---- MODULE Spec2Model ----
(***************************************************************************)
(* Product chatbot API (src/index.js): the process-wide product cache,     *)
(* getProducts() and the POST /api/chat handler, as a state machine.       *)
(*                                                                         *)
(* JavaScript values are records [t, s, n, arr]: t is the value's kind,    *)
(* s the characters of a string, n the value of a number, arr the elements *)
(* of an array.  A request handler runs from one await to the next without *)
(* interruption (Node's event loop), so every action below is one such     *)
(* synchronous segment, and concurrent requests interleave at the awaits.  *)
(* The local variables of getProducts (status, data) and of the handler    *)
(* (products) go back to their initial values when the function ends.      *)
(***************************************************************************)
EXTENDS Integers, Sequences, FiniteSets, TLC

\* ------------------------------------------------------------------ bounds
MaxReqs == 2         \* requests the server receives in a run
MaxTicks == 2        \* clock advances in a run
MaxLen == 3          \* longest products array given to the prompt builder alone
StartTime == 1000000 \* Date.now() at process start, in ms (any value above ttl)

Req == 1..MaxReqs

\* ------------------------------------------------------------ JS values
Undef == [t |-> "undefined", s |-> <<>>, n |-> 0, arr |-> <<>>]
Null == [t |-> "null", s |-> <<>>, n |-> 0, arr |-> <<>>]
Num(k) == [t |-> "number", s |-> <<>>, n |-> k, arr |-> <<>>]
Str(cs) == [t |-> "string", s |-> cs, n |-> 0, arr |-> <<>>]
Arr(xs) == [t |-> "array", s |-> <<>>, n |-> 0, arr |-> xs]
PlainObj == [t |-> "object", s |-> <<>>, n |-> 0, arr |-> <<>>]
\* An object with a member of its own named toString, as in {"toString": 1}
\* (for an object, n counts such members): the member is never a function
\* in a parsed JSON body, so the object cannot be converted to a string.
OwnToStringObj == [t |-> "object", s |-> <<>>, n |-> 1, arr |-> <<>>]
\* An object with a member of its own named length (for an object, arr is
\* <<>> without such a member and <<v>> when the member's value is v); here
\* the member is an object that cannot be converted to a string, as in
\* {"length": {"toString": 1}}.
OddLengthObj == [t |-> "object", s |-> <<>>, n |-> 0, arr |-> <<OwnToStringObj>>]

\* A number that is not kept as an integer: the double m * 2^e, with the
\* 53-bit m given by its three limbs in base 2^20, most significant first.
Double(limbs, e) == [t |-> "number", s |-> <<>>, n |-> e, arr |-> limbs]

\* ToBoolean: undefined, null, 0 and "" are falsy; arrays (even empty) and
\* objects are truthy.
Truthy(v) ==
  CASE v.t = "undefined" -> FALSE
    [] v.t = "null" -> FALSE
    [] v.t = "number" -> v.n # 0
    [] v.t = "string" -> Len(v.s) > 0
    [] OTHER -> TRUE

\* a || b
Or(a, b) == IF Truthy(a) THEN a ELSE b

\* typeof v
TypeOf(v) ==
  CASE v.t = "null" -> "object"
    [] v.t = "array" -> "object"
    [] OTHER -> v.t

\* Array.isArray replaced by a typeof test
IsArray_TypeofObject(v) == v.t \in {"array", "object"}

\* Array.isArray
IsArray(v) == v.t = "array"

\* A character is a one-character string; a character that cannot be written
\* in a string here is named by its escape ("\\u00a0" is the one character
\* U+00A0).  WhiteSpace is what String.prototype.trim strips: the WhiteSpace
\* and LineTerminator code points of the language.
WhiteSpace ==
  {" ", "\t", "\n", "\r", "\f", "\\u000b", "\\u00a0", "\\ufeff", "\\u2028", "\\u2029",
   "\\u1680", "\\u2000", "\\u2001", "\\u2002", "\\u2003", "\\u2004", "\\u2005",
   "\\u2006", "\\u2007", "\\u2008", "\\u2009", "\\u200a", "\\u202f", "\\u205f",
   "\\u3000"}

RECURSIVE TrimStart(_)
TrimStart(cs) ==
  IF cs # <<>> /\ Head(cs) \in WhiteSpace THEN TrimStart(Tail(cs)) ELSE cs

RECURSIVE TrimEnd(_)
TrimEnd(cs) ==
  IF cs # <<>> /\ cs[Len(cs)] \in WhiteSpace
  THEN TrimEnd(SubSeq(cs, 1, Len(cs) - 1))
  ELSE cs

\* String.prototype.trim
Trim(cs) == TrimEnd(TrimStart(cs))

\* An element of a products array: an object with the four fields the prompt
\* reads (each a JS value, Undef when absent), or null.
Product(ti, de, pr, ca) ==
  [t |-> "object", title |-> ti, description |-> de, price |-> pr, category |-> ca]
NullElem ==
  [t |-> "null", title |-> Undef, description |-> Undef, price |-> Undef,
   category |-> Undef]

\* An element that is a number: every property read of it gives undefined.
NumberElem ==
  [t |-> "number", title |-> Undef, description |-> Undef, price |-> Undef,
   category |-> Undef]

\* A product whose description is an array holding an object that cannot be
\* converted to a string.
Sealed == Product(Str(<<"Z">>), Arr(<<Num(3), OwnToStringObj>>), Undef, Undef)
\* A product whose fields are an array, an empty array, a negative number and
\* an object.
Bundle == Product(Arr(<<Num(1), Num(2)>>), Arr(<<>>), Num(0 - 5), PlainObj)
Gadget == Product(Str(<<"G">>), Str(<<"d">>), Num(7), Str(<<"k">>))
Sneaker == Product(Str(<<"S", "n", "e", "a", "k", "e", "r">>), Undef, Num(20), Undef)
Freebie == Product(Undef, Str(<<"g", "i", "f", "t">>), Num(0), Str(<<>>))

\* A parsed response body: a JS value with, for an object, the three fields
\* the selection probes (Undef when absent).
Payload(v, c, p, i) ==
  [t |-> v.t, s |-> v.s, n |-> v.n, arr |-> v.arr,
   content |-> c, products |-> p, items |-> i]
Bare(v) == Payload(v, Undef, Undef, Undef)
Obj(c, p, i) == Payload(PlainObj, c, p, i)
AsValue(d) == [t |-> d.t, s |-> d.s, n |-> d.n, arr |-> d.arr]

\* ------------------------------------------------------------ inputs
Prompts ==
  { Undef, Num(5), Str(<<>>), Str(<<" ", "\r", "\\u00a0">>), Str(<<"s", "h", "o", "e", "s">>) }

Payloads ==
  { Bare(Arr(<<Sneaker, Freebie>>)),
    Bare(Arr(<<NullElem>>)),
    Bare(Null),
    Obj(Undef, Undef, Undef),
    Obj(Arr(<<Sneaker, Freebie>>), Arr(<<Freebie>>), Undef),
    Obj(Undef, Arr(<<Freebie>>), Arr(<<Sneaker, Freebie>>)),
    Obj(Null, Undef, Arr(<<Sneaker, Freebie>>)),
    Obj(Str(<<"x">>), Arr(<<Freebie>>), Undef),
    Obj(Arr(<<>>), Arr(<<Freebie>>), Undef),
    Bare(OddLengthObj) }

GenTexts == { <<"-", " ", "S", "n", "e", "a", "k", "e", "r">> }

VARIABLES
  productCache,  \* the process-wide cache object
  now,           \* Date.now()
  ticks,         \* clock advances so far
  pc,            \* pc[r]: where request r's handler is suspended
  prompt,        \* prompt[r]: req.body.prompt
  status,        \* status[r]: response.status of request r's fetch (0: none)
  data,          \* data[r]: the parsed response body in getProducts
  products,      \* products[r]: the array getProducts() gave request r
  res,           \* res[r]: the response sent to request r
  netCalls,      \* netCalls[r]: fetch(PRODUCTS_API) calls made for request r
  genCalls,      \* genCalls[r]: generateContent calls made for request r
  lastWrite,     \* the array and time of the last completed cache update
  logged,        \* logged[r]: what getProducts logged of the cache for request r
  sent,          \* sent[r]: constrainedPrompt, as passed to generateContent
  error          \* error[r]: the error request r's getProducts() rejected with

vars ==
  <<productCache, now, ticks, pc, prompt, status, data, products, res,
    netCalls, genCalls, lastWrite, logged, sent, error>>

\* --------------------------------------------------------- the cache
ttl == 1000 * 60 * 10

\* productCache.lastUpdated is <<>> for null and <<t>> for the number t;
\* arithmetic on null takes it as 0.
ToNumber(opt) == IF opt = <<>> THEN 0 ELSE opt[1]

InitialCache == [data |-> <<>>, lastUpdated |-> <<>>, ttl |-> ttl]

\* CacheValid with the age comparison turned round
CacheValid_AgeReversed(cache, t) ==
  Len(cache.data) > 0 /\ t - ToNumber(cache.lastUpdated) > cache.ttl

\* CacheValid without the test for a non-empty list
CacheValid_NoEmptyCheck(cache, t) ==
  t - ToNumber(cache.lastUpdated) < cache.ttl

\* CacheValid with an age of exactly ttl still served
CacheValid_AgeInclusive(cache, t) ==
  Len(cache.data) > 0 /\ t - ToNumber(cache.lastUpdated) <= cache.ttl

\* getProducts, the cache validity check
CacheValid(cache, t) ==
  Len(cache.data) > 0 /\ t - ToNumber(cache.lastUpdated) < cache.ttl

\* SelectProducts probing items before products
SelectProducts_ItemsFirst(d) == Or(Or(Or(d.content, d.items), d.products), AsValue(d))

\* getProducts: data.content || data.products || data.items || data
SelectProducts(d) == Or(Or(Or(d.content, d.products), d.items), AsValue(d))

\* NewSnapshot that leaves the old time stamp in place
NewSnapshot_KeepStamp(old, list, t) ==
  [data |-> list, lastUpdated |-> old.lastUpdated, ttl |-> ttl]

\* NewSnapshot that keeps a snapshot another fetch has stored meanwhile
NewSnapshot_FirstWins(old, list, t) ==
  IF old.lastUpdated = <<>>
  THEN [data |-> list, lastUpdated |-> <<t>>, ttl |-> ttl]
  ELSE old

\* NewSnapshot that stores the array without a time stamp
NewSnapshot_NoStamp(old, list, t) == [data |-> list, lastUpdated |-> <<>>, ttl |-> ttl]

\* getProducts, the cache update
NewSnapshot(old, list, t) == [data |-> list, lastUpdated |-> <<t>>, ttl |-> ttl]

\* Text built by a template literal is the sequence of its pieces, in order:
\* each literal part of the template is one piece, and an interpolated value
\* gives its characters.  The string is the concatenation of the pieces.
DigitChars == <<"0", "1", "2", "3", "4", "5", "6", "7", "8", "9">>

\* String(n) for a non-negative integer n
RECURSIVE Digits(_)
Digits(n) ==
  IF n < 10 THEN <<DigitChars[n + 1]>>
  ELSE Digits(n \div 10) \o <<DigitChars[(n % 10) + 1]>>

\* ${v} throws a TypeError instead of giving a string: v is an object with
\* its own toString member, or an array that holds one.
RECURSIVE ConvertThrows(_)
ConvertThrows(v) ==
  \/ v.t = "object" /\ v.n > 0
  \/ v.t = "array" /\ \E i \in 1..Len(v.arr) : ConvertThrows(v.arr[i])

\* ${v}: the string conversion of an interpolated value that ConvertThrows
\* does not hold of.  Numbers are integers; an array gives its elements'
\* conversions joined by commas, null and undefined elements giving nothing.
RECURSIVE ToText(_)
RECURSIVE ElementsText(_)
ToText(v) ==
  CASE v.t = "string" -> v.s
    [] v.t = "number" -> IF v.n < 0 THEN <<"-">> \o Digits(0 - v.n) ELSE Digits(v.n)
    [] v.t = "undefined" -> <<"undefined">>
    [] v.t = "null" -> <<"null">>
    [] v.t = "array" -> ElementsText(v.arr)
    [] OTHER -> <<"[object Object]">>
ElementsText(xs) ==
  IF xs = <<>> THEN <<>>
  ELSE (IF Head(xs).t \in {"undefined", "null"} THEN <<>> ELSE ToText(Head(xs)))
       \o (IF Len(xs) > 1 THEN <<",">> \o ElementsText(Tail(xs)) ELSE <<>>)

UnnamedProduct == Str(<<"Unnamed Product">>)
NoDescription == Str(<<"No description">>)
NotAvailable == Str(<<"N/A">>)
Uncategorized == Str(<<"Uncategorized">>)

\* Default that keeps every value but undefined and null (the ?? operator)
Default_Nullish(v, placeholder) == IF v.t \in {"undefined", "null"} THEN placeholder ELSE v

\* v || placeholder
Default(v, placeholder) == Or(v, placeholder)

\* buildProductContext, the template of one product
Block(p) ==
  <<"\n    Product: ">> \o ToText(Default(p.title, UnnamedProduct))
  \o <<"\n    Description: ">> \o ToText(Default(p.description, NoDescription))
  \o <<"\n    Price: ">> \o ToText(Default(p.price, NotAvailable))
  \o <<"\n    Category: ">> \o ToText(Default(p.category, Uncategorized))
  \o <<"\n  ">>

\* The template of one product throws: the element is null (p.title cannot
\* be read), or one of the four values it interpolates cannot be converted.
BlockThrows(p) ==
  \/ p.t = "null"
  \/ ConvertThrows(Default(p.title, UnnamedProduct))
  \/ ConvertThrows(Default(p.description, NoDescription))
  \/ ConvertThrows(Default(p.price, NotAvailable))
  \/ ConvertThrows(Default(p.category, Uncategorized))

\* Array.prototype.join: the texts with sep between neighbours
RECURSIVE Join(_, _)
Join(texts, sep) ==
  IF texts = <<>> THEN <<>>
  ELSE IF Len(texts) = 1 THEN texts[1]
  ELSE texts[1] \o sep \o Join(Tail(texts), sep)

\* buildProductContext with the blocks in reverse order
buildProductContext_Reversed(list) ==
  Join([i \in 1..Len(list) |-> Block(list[Len(list) + 1 - i])], <<"\n\n">>)

\* products.map(p => `...`).join("\n\n")
buildProductContext(list) ==
  Join([i \in 1..Len(list) |-> Block(list[i])], <<"\n\n">>)

\* The TypeErrors of reading p.title of null and of converting an object
MsgNullElement == <<"Cannot read properties of null (reading 'title')">>
MsgConvert == <<"Cannot convert object to primitive value">>

\* buildProductContext throws: map stops at the first element whose template
\* throws, with that error
BuildThrows(list) == \E i \in 1..Len(list) : BlockThrows(list[i])
BuildError(list) ==
  LET i == CHOOSE k \in 1..Len(list) :
             BlockThrows(list[k]) /\ \A j \in 1..(k - 1) : ~BlockThrows(list[j])
  IN IF list[i].t = "null" THEN MsgNullElement ELSE MsgConvert

\* The handler's constrainedPrompt for the query q and the products list
ConstrainedPrompt(q, list) ==
  <<"\n      ", "[Respond in under 40 words]", "\n      User Query: ">>
  \o ToText(q)
  \o <<"\n      \n      ", "Available Products:", "\n      ">>
  \o buildProductContext(list)
  \o <<"\n      \n      ", "Response Requirements:", "\n      ",
       "- Concise bullet points", "\n      ", "- Max 200 tokens", "\n      ",
       "- Prioritize most relevant products", "\n    ">>

\* v.length, as read of the candidate at the log line of getProducts
LengthOf(v) ==
  CASE v.t = "array" -> Num(Len(v.arr))
    [] v.t = "string" -> Num(Len(v.s))
    [] v.t = "object" -> IF v.arr = <<>> THEN Undef ELSE v.arr[1]
    [] OTHER -> Undef

\* response.split(' ').length
RECURSIVE SplitLength(_)
SplitLength(cs) ==
  IF cs = <<>> THEN 1
  ELSE (IF Head(cs) = " " THEN 1 ELSE 0) + SplitLength(Tail(cs))

\* k * 1.33 in double arithmetic, for a count k >= 1.  The double 1.33 is
\* 5989787504402760 * 2^-52, in limbs of 20 bits <<5447, 713031, 713032>>;
\* the exact product is rounded to 53 bits, ties to even.
Limb == 1048576
RECURSIVE BitLen(_)
BitLen(x) == IF x = 0 THEN 0 ELSE 1 + BitLen(x \div 2)
TimesOnePoint33(k) ==
  LET p0 == k * 713032
      p1 == k * 713031 + p0 \div Limb
      l0 == p0 % Limb
      l1 == p1 % Limb
      l2 == k * 5447 + p1 \div Limb
      sh == BitLen(l2) - 13
      d == 2 ^ sh
      up == Limb \div d
      rem == l0 % d
      q0 == l0 \div d + (l1 % d) * up
      q1 == l1 \div d + (l2 % d) * up
      q2 == l2 \div d
      round == sh > 0 /\ (2 * rem > d \/ (2 * rem = d /\ q0 % 2 = 1))
      r0 == IF round THEN q0 + 1 ELSE q0
      r1 == q1 + r0 \div Limb
      r2 == q2 + r1 \div Limb
  IN IF r2 = 8192
     THEN Double(<<4096, 0, 0>>, sh + 1 - 52)
     ELSE Double(<<r2, r1 % Limb, r0 % Limb>>, sh - 52)

\* ------------------------------------------------------- responses
HttpStatuses == {200, 404, 503}
ResponseOk(st) == st \in 200..299

MsgPromptRequired == <<"Prompt is required and must be a non-empty string.">>
\* `Products API failed: ${response.status}`
MsgStatus(st) == <<"Products API failed: ">> \o Digits(st)
MsgNullPayload == <<"Cannot read properties of null (reading 'content')">>
MsgNotArray == <<"Products data is not an array">>

\* An outbound call that fails gives an error of its own making; the code
\* passes its message on unchanged.  Messages such calls give:
\* fetch(PRODUCTS_API) rejecting, response.text() rejecting, response.json()
\* rejecting, and generateContent rejecting or the text() of its result
\* throwing.
NetworkErrors ==
  { <<"request to http://products.test/api failed, reason: connect ECONNREFUSED 127.0.0.1:80">> }
BodyErrors == { <<"Premature close">> }
ParseErrors ==
  { <<"invalid json response body at http://products.test/api reason: Unexpected token < in JSON at position 0">> }
GenerationErrors ==
  { <<"[GoogleGenerativeAI Error]: Error fetching from ...: [429 Too Many Requests]">> }
BlockedErrors == { <<"Candidate was blocked due to SAFETY">> }

\* error is <<>> when the body has no error field, <<m>> for the message m
\* (a text: the sequence of its pieces);
\* tokenEstimate is the double response.split(' ').length * 1.33.
NoResponse ==
  [status |-> 0, error |-> <<>>, response |-> Undef, tokenEstimate |-> Undef,
   productsUsed |-> Undef]
ErrorResponse(code, m) ==
  [status |-> code, error |-> <<m>>, response |-> Undef, tokenEstimate |-> Undef,
   productsUsed |-> Undef]
\* ChatResponse that counts the products the cache holds at response time
ChatResponse_CountsCache(text, list) ==
  [status |-> 200, error |-> <<>>, response |-> Str(text),
   tokenEstimate |-> TimesOnePoint33(SplitLength(text)),
   productsUsed |-> Num(Len(productCache.data))]
\* res.json({response, tokenEstimate, productsUsed})
ChatResponse(text, list) ==
  [status |-> 200, error |-> <<>>, response |-> Str(text),
   tokenEstimate |-> TimesOnePoint33(SplitLength(text)),
   productsUsed |-> Num(Len(list))]

\* PromptInvalid without the trim
PromptInvalid_NoTrim(p) ==
  \/ ~Truthy(p)
  \/ TypeOf(p) # "string"

\* !prompt || typeof prompt !== 'string' || prompt.trim().length === 0
PromptInvalid(p) ==
  \/ ~Truthy(p)
  \/ TypeOf(p) # "string"
  \/ Len(Trim(p.s)) = 0

NoData == Bare(Undef)

\* getProducts logs the cache it finds: whether it holds products, and whether
\* it was never updated, updated less than ttl ago, or earlier.
NotLogged == [items |-> "unread", updated |-> "unread"]
CurrentCache(cache, t) ==
  [items |-> IF Len(cache.data) > 0 THEN "some" ELSE "none",
   updated |-> IF cache.lastUpdated = <<>> THEN "never"
               ELSE IF t - cache.lastUpdated[1] < cache.ttl THEN "recent"
               ELSE "old"]

Init ==
  /\ productCache = InitialCache
  /\ now = StartTime
  /\ ticks = 0
  /\ pc = [r \in Req |-> "idle"]
  /\ prompt = [r \in Req |-> Undef]
  /\ status = [r \in Req |-> 0]
  /\ data = [r \in Req |-> NoData]
  /\ products = [r \in Req |-> <<>>]
  /\ res = [r \in Req |-> NoResponse]
  /\ netCalls = [r \in Req |-> 0]
  /\ genCalls = [r \in Req |-> 0]
  /\ lastWrite = [data |-> <<>>, at |-> <<>>]
  /\ logged = [r \in Req |-> NotLogged]
  /\ sent = [r \in Req |-> <<>>]
  /\ error = [r \in Req |-> <<>>]

\* The handler ends with the response x
Respond(r, x) ==
  /\ pc' = [pc EXCEPT ![r] = "done"]
  /\ res' = [res EXCEPT ![r] = x]
  /\ status' = [status EXCEPT ![r] = 0]
  /\ data' = [data EXCEPT ![r] = NoData]
  /\ products' = [products EXCEPT ![r] = <<>>]
  /\ sent' = [sent EXCEPT ![r] = <<>>]
  /\ error' = [error EXCEPT ![r] = <<>>]

\* Fail without res.status(500): the error goes out with the default status
Fail_DefaultStatus(r, m) == Respond(r, ErrorResponse(200, m))

\* Fail that swallows the error: the handler ends without sending anything
Fail_Silent(r, m) == Respond(r, NoResponse)

\* An error reaches the handler's catch block:
\* res.status(500).json({ error: error.message })
Fail(r, m) == Respond(r, ErrorResponse(500, m))

\* An error thrown in getProducts reaches its catch block, which logs it and
\* throws it again: the promise of getProducts() rejects with it, and the
\* handler awaiting it resumes in a later turn
Throw(r, m) ==
  /\ pc' = [pc EXCEPT ![r] = "rejected"]
  /\ error' = [error EXCEPT ![r] = <<m>>]
  /\ status' = [status EXCEPT ![r] = 0]
  /\ data' = [data EXCEPT ![r] = NoData]
  /\ UNCHANGED <<products, res, sent>>

\* Arrive that makes no call of its own while another request's fetch is under
\* way (single flight)
Arrive_SingleFlight(r, p) ==
  /\ pc[r] = "idle"
  /\ \A q \in Req : q < r => pc[q] # "idle"
  /\ prompt' = [prompt EXCEPT ![r] = p]
  /\ IF PromptInvalid(p)
     THEN /\ Respond(r, ErrorResponse(400, MsgPromptRequired))
          /\ UNCHANGED <<netCalls, logged>>
     ELSE /\ logged' = [logged EXCEPT ![r] = CurrentCache(productCache, now)]
          /\ IF CacheValid(productCache, now)
             THEN /\ pc' = [pc EXCEPT ![r] = "gotProducts"]
                  /\ products' = [products EXCEPT ![r] = productCache.data]
                  /\ UNCHANGED <<status, data, res, netCalls, sent, error>>
             ELSE /\ pc' = [pc EXCEPT ![r] = "fetching"]
                  /\ netCalls' = [netCalls EXCEPT ![r] =
                                    IF \E q \in Req : pc[q] = "fetching" THEN @ ELSE @ + 1]
                  /\ UNCHANGED <<status, data, res, products, sent, error>>
  /\ UNCHANGED <<productCache, now, ticks, genCalls, lastWrite>>

\* POST /api/chat arrives: validation, then getProducts() up to its first
\* await (the cache check, and on a miss the call of fetch).  Requests are
\* numbered in the order they arrive.
Arrive(r, p) ==
  /\ pc[r] = "idle"
  /\ \A q \in Req : q < r => pc[q] # "idle"
  /\ prompt' = [prompt EXCEPT ![r] = p]
  /\ IF PromptInvalid(p)
     THEN /\ Respond(r, ErrorResponse(400, MsgPromptRequired))
          /\ UNCHANGED <<netCalls, logged>>
     ELSE /\ logged' = [logged EXCEPT ![r] = CurrentCache(productCache, now)]
          /\ IF CacheValid(productCache, now)
             THEN /\ pc' = [pc EXCEPT ![r] = "gotProducts"]
                  /\ products' = [products EXCEPT ![r] = productCache.data]
                  /\ UNCHANGED <<status, data, res, netCalls, sent, error>>
             ELSE /\ pc' = [pc EXCEPT ![r] = "fetching"]
                  /\ netCalls' = [netCalls EXCEPT ![r] = @ + 1]
                  /\ UNCHANGED <<status, data, res, products, sent, error>>
  /\ UNCHANGED <<productCache, now, ticks, genCalls, lastWrite>>

\* FetchRejects falling back to the cached list
FetchRejects_StaleFallback(r, m) ==
  /\ pc[r] = "fetching"
  /\ pc' = [pc EXCEPT ![r] = "gotProducts"]
  /\ products' = [products EXCEPT ![r] = productCache.data]
  /\ UNCHANGED <<productCache, now, ticks, prompt, status, data, res, netCalls,
                 genCalls, lastWrite, logged, sent, error>>

\* FetchRejects that calls fetch again instead of failing
FetchRejects_Retry(r, m) ==
  /\ pc[r] = "fetching"
  /\ netCalls' = [netCalls EXCEPT ![r] = @ + 1]
  /\ UNCHANGED <<productCache, now, ticks, pc, prompt, status, data, products, res,
                 genCalls, lastWrite, logged, sent, error>>

\* fetch(PRODUCTS_API) rejects with an error of message m
FetchRejects(r, m) ==
  /\ pc[r] = "fetching"
  /\ Throw(r, m)
  /\ UNCHANGED <<productCache, now, ticks, prompt, netCalls, genCalls, lastWrite,
                 logged>>

\* fetch(PRODUCTS_API) resolves with a response of status st
FetchResolves(r, st) ==
  /\ pc[r] = "fetching"
  /\ status' = [status EXCEPT ![r] = st]
  /\ pc' = [pc EXCEPT ![r] = IF ResponseOk(st) THEN "readingJson" ELSE "readingText"]
  /\ UNCHANGED <<productCache, now, ticks, prompt, data, products, res, netCalls,
                 genCalls, lastWrite, logged, sent, error>>

\* response.text() of a failed response resolves: the status error is thrown
TextResolves(r) ==
  /\ pc[r] = "readingText"
  /\ Throw(r, MsgStatus(status[r]))
  /\ UNCHANGED <<productCache, now, ticks, prompt, netCalls, genCalls, lastWrite,
                 logged>>

\* response.text() of a failed response rejects: that error is thrown instead
TextRejects(r, m) ==
  /\ pc[r] = "readingText"
  /\ Throw(r, m)
  /\ UNCHANGED <<productCache, now, ticks, prompt, netCalls, genCalls, lastWrite,
                 logged>>

\* response.json() rejects
JsonRejects(r, m) ==
  /\ pc[r] = "readingJson"
  /\ Throw(r, m)
  /\ UNCHANGED <<productCache, now, ticks, prompt, netCalls, genCalls, lastWrite,
                 logged>>

\* response.json() resolves with d
JsonResolves(r, d) ==
  /\ pc[r] = "readingJson"
  /\ data' = [data EXCEPT ![r] = d]
  /\ pc' = [pc EXCEPT ![r] = "parsed"]
  /\ UNCHANGED <<productCache, now, ticks, prompt, status, products, res, netCalls,
                 genCalls, lastWrite, logged, sent, error>>

\* getProducts resumes with data: the selection, the log of the candidate's
\* length, the array check, the cache update and the return
StoreProducts(r) ==
  /\ pc[r] = "parsed"
  /\ IF data[r].t = "null"
     THEN /\ Throw(r, MsgNullPayload)
          /\ UNCHANGED <<productCache, lastWrite>>
     ELSE IF ConvertThrows(LengthOf(SelectProducts(data[r])))
     THEN /\ Throw(r, MsgConvert)
          /\ UNCHANGED <<productCache, lastWrite>>
     ELSE IF ~IsArray(SelectProducts(data[r]))
     THEN /\ Throw(r, MsgNotArray)
          /\ UNCHANGED <<productCache, lastWrite>>
     ELSE /\ productCache' =
               NewSnapshot(productCache, SelectProducts(data[r]).arr, now)
          /\ lastWrite' = [data |-> SelectProducts(data[r]).arr, at |-> <<now>>]
          /\ products' = [products EXCEPT ![r] = SelectProducts(data[r]).arr]
          /\ status' = [status EXCEPT ![r] = 0]
          /\ data' = [data EXCEPT ![r] = NoData]
          /\ pc' = [pc EXCEPT ![r] = "gotProducts"]
          /\ UNCHANGED <<res, sent, error>>
  /\ UNCHANGED <<now, ticks, prompt, netCalls, genCalls, logged>>

\* await getProducts() resumes with the error getProducts() rejected with:
\* the handler's catch block answers 500
GetProductsRejected(r) ==
  /\ pc[r] = "rejected"
  /\ Fail(r, error[r][1])
  /\ UNCHANGED <<productCache, now, ticks, prompt, netCalls, genCalls, lastWrite,
                 logged>>

\* await getProducts() resumes with the array getProducts() returned: the
\* prompt is built and generateContent called
Generate(r) ==
  /\ pc[r] = "gotProducts"
  /\ IF BuildThrows(products[r])
     THEN /\ Fail(r, BuildError(products[r]))
          /\ UNCHANGED genCalls
     ELSE /\ sent' = [sent EXCEPT ![r] = ConstrainedPrompt(prompt[r], products[r])]
          /\ pc' = [pc EXCEPT ![r] = "generating"]
          /\ genCalls' = [genCalls EXCEPT ![r] = @ + 1]
          /\ UNCHANGED <<status, data, products, res, error>>
  /\ UNCHANGED <<productCache, now, ticks, prompt, netCalls, lastWrite, logged>>

\* GenerationRejects that also drops the cached products
GenerationRejects_Invalidate(r, m) ==
  /\ pc[r] = "generating"
  /\ Fail(r, m)
  /\ productCache' = InitialCache
  /\ UNCHANGED <<now, ticks, prompt, netCalls, genCalls, lastWrite, logged>>

\* generateContent rejects: the handler's catch block answers 500
GenerationRejects(r, m) ==
  /\ pc[r] = "generating"
  /\ Fail(r, m)
  /\ UNCHANGED <<productCache, now, ticks, prompt, netCalls, genCalls, lastWrite,
                 logged>>

\* generateContent resolves: the handler resumes with result and awaits
\* result.response
GenerationResolves(r) ==
  /\ pc[r] = "generating"
  /\ pc' = [pc EXCEPT ![r] = "readingResult"]
  /\ UNCHANGED <<productCache, now, ticks, prompt, status, data, products, res,
                 netCalls, genCalls, lastWrite, logged, sent, error>>

\* await result.response resumes and text() throws: the handler's catch block
\* answers 500
ResponseTextThrows(r, m) ==
  /\ pc[r] = "readingResult"
  /\ Fail(r, m)
  /\ UNCHANGED <<productCache, now, ticks, prompt, netCalls, genCalls, lastWrite,
                 logged>>

\* await result.response resumes and text() returns text:
\* res.json({response, tokenEstimate, productsUsed})
ResponseText(r, text) ==
  /\ pc[r] = "readingResult"
  /\ Respond(r, ChatResponse(text, products[r]))
  /\ UNCHANGED <<productCache, now, ticks, prompt, netCalls, genCalls, lastWrite,
                 logged>>

\* Time passes
Steps == {ttl \div 2}

Tick(d) ==
  /\ ticks < MaxTicks
  /\ ticks' = ticks + 1
  /\ now' = now + d
  /\ UNCHANGED <<productCache, pc, prompt, status, data, products, res, netCalls,
                 genCalls, lastWrite, logged, sent, error>>

Next ==
  \/ \E r \in Req, p \in Prompts : Arrive(r, p)
  \/ \E r \in Req, m \in NetworkErrors : FetchRejects(r, m)
  \/ \E r \in Req, st \in HttpStatuses : FetchResolves(r, st)
  \/ \E r \in Req : TextResolves(r)
  \/ \E r \in Req, m \in BodyErrors : TextRejects(r, m)
  \/ \E r \in Req, m \in ParseErrors : JsonRejects(r, m)
  \/ \E r \in Req, d \in Payloads : JsonResolves(r, d)
  \/ \E r \in Req : StoreProducts(r)
  \/ \E r \in Req : GetProductsRejected(r)
  \/ \E r \in Req : Generate(r)
  \/ \E r \in Req, m \in GenerationErrors : GenerationRejects(r, m)
  \/ \E r \in Req : GenerationResolves(r)
  \/ \E r \in Req, m \in BlockedErrors : ResponseTextThrows(r, m)
  \/ \E r \in Req, text \in GenTexts : ResponseText(r, text)
  \/ \E d \in Steps : Tick(d)

Spec == Init /\ [][Next]_vars

\* The continuations of request r's handler: each runs when what it awaits
\* (fetch, response.text, response.json, getProducts, generateContent,
\* result.response) settles.
Continue(r) ==
  \/ \E m \in NetworkErrors : FetchRejects(r, m)
  \/ \E st \in HttpStatuses : FetchResolves(r, st)
  \/ TextResolves(r)
  \/ \E m \in BodyErrors : TextRejects(r, m)
  \/ \E m \in ParseErrors : JsonRejects(r, m)
  \/ \E d \in Payloads : JsonResolves(r, d)
  \/ StoreProducts(r)
  \/ GetProductsRejected(r)
  \/ Generate(r)
  \/ \E m \in GenerationErrors : GenerationRejects(r, m)
  \/ GenerationResolves(r)
  \/ \E m \in BlockedErrors : ResponseTextThrows(r, m)
  \/ \E text \in GenTexts : ResponseText(r, text)

\* Every outbound call eventually resolves or rejects, and the event loop
\* then runs the continuation waiting for it.  Arrivals and the clock are
\* under no obligation.
FairSpec == Spec /\ \A r \in Req : WF_vars(Continue(r))

\* ------------------------------------------- the prompt builder alone
\* The handler of request 1 right after getProducts() fetched, stored and
\* returned a bare array of up to MaxLen elements, for every such array.
ProductSamples == {Sneaker, Freebie, Gadget, Bundle, Sealed, NullElem, NumberElem}
ProductLists == UNION {[1..k -> ProductSamples] : k \in 0..MaxLen}
FirstReq == CHOOSE r \in Req : \A q \in Req : r <= q

BuildInit ==
  \E list \in ProductLists, q \in {p \in Prompts : ~PromptInvalid(p)} :
    /\ productCache = NewSnapshot(InitialCache, list, StartTime)
    /\ now = StartTime
    /\ ticks = 0
    /\ pc = [r \in Req |-> IF r = FirstReq THEN "gotProducts" ELSE "idle"]
    /\ prompt = [r \in Req |-> IF r = FirstReq THEN q ELSE Undef]
    /\ status = [r \in Req |-> 0]
    /\ data = [r \in Req |-> NoData]
    /\ products = [r \in Req |-> IF r = FirstReq THEN list ELSE <<>>]
    /\ res = [r \in Req |-> NoResponse]
    /\ netCalls = [r \in Req |-> IF r = FirstReq THEN 1 ELSE 0]
    /\ genCalls = [r \in Req |-> 0]
    /\ lastWrite = [data |-> list, at |-> <<StartTime>>]
    /\ logged = [r \in Req |-> IF r = FirstReq
                                 THEN CurrentCache(InitialCache, StartTime)
                                 ELSE NotLogged]
    /\ sent = [r \in Req |-> <<>>]
    /\ error = [r \in Req |-> <<>>]

BuildNext == Generate(FirstReq)

BuildSpec == BuildInit /\ [][BuildNext]_vars

\* ------------------------------------------------------------ claims

\* Request r's handler calls getProducts() in this step.
GetCalled(r) == pc[r] = "idle" /\ pc'[r] \in {"gotProducts", "fetching"}

\* The age of the last successful fetch (no fetch yet: the clock itself).
SinceLastFetch == now - ToNumber(lastWrite.at)

\* C1: whenever getProducts() is called while the snapshot's items are
\* non-empty and now - fetchedAt < ttl, it makes no network call and returns
\* exactly the stored items, in the stored order.
C1_ValidSnapshotServedFromCache ==
  [][\A r \in Req :
       (/\ GetCalled(r)
        /\ Len(productCache.data) > 0
        /\ productCache.lastUpdated # <<>>
        /\ now - productCache.lastUpdated[1] < productCache.ttl)
       => (/\ netCalls'[r] = netCalls[r]
           /\ netCalls'[r] = 0
           /\ pc'[r] = "gotProducts"
           /\ products'[r] = productCache.data)]_vars

\* A request was served a two-element list from the cache without a fetch.
C1_Witness ==
  \E r \in Req :
    /\ pc[r] = "gotProducts"
    /\ netCalls[r] = 0
    /\ products[r] = <<Sneaker, Freebie>>

\* C2 as stated: after any successful fetch, empty array included, a
\* getProducts() within ttl of it makes no network call, and one after ttl
\* expiry makes exactly one.
C2_Original ==
  [][\A r \in Req :
       (GetCalled(r) /\ lastWrite.at # <<>>)
       => netCalls'[r] = (IF SinceLastFetch < ttl THEN 0 ELSE 1)]_vars

\* C2, amended: after a successful fetch, a getProducts() within ttl of the
\* latest successful fetch makes no network call when that fetch returned a
\* non-empty array and exactly one when it returned an empty array; one made
\* after ttl expiry makes exactly one.
C2_RefetchOnlyAfterExpiryOrEmpty ==
  [][\A r \in Req :
       (GetCalled(r) /\ lastWrite.at # <<>>)
       => netCalls'[r] =
            (IF Len(lastWrite.data) > 0 /\ SinceLastFetch < ttl THEN 0 ELSE 1)]_vars

\* A request found a fetched, non-empty list that had expired, and made one
\* network call.
C2_Witness ==
  \E r \in Req :
    /\ logged[r] = [items |-> "some", updated |-> "old"]
    /\ netCalls[r] = 1

\* C3: whenever getProducts() is called while the snapshot's items are empty,
\* whatever fetchedAt is, it calls the Catalog Source and does not return the
\* empty list from the cache.
C3_EmptySnapshotAlwaysFetches ==
  [][\A r \in Req :
       (GetCalled(r) /\ Len(productCache.data) = 0)
       => (pc'[r] = "fetching" /\ netCalls'[r] = netCalls[r] + 1)]_vars

\* A request found an empty snapshot fetched less than ttl ago, and fetched.
C3_Witness ==
  \E r \in Req :
    /\ logged[r] = [items |-> "none", updated |-> "recent"]
    /\ pc[r] = "fetching"
    /\ netCalls[r] = 1

\* The field is present in the payload.
Present(v) == v.t # "undefined"

\* The candidate as C4 states it: the first present field of content, items,
\* products, else the whole payload.
FirstPresent(d) ==
  IF Present(d.content) THEN d.content
  ELSE IF Present(d.items) THEN d.items
  ELSE IF Present(d.products) THEN d.products
  ELSE AsValue(d)

\* A present field the || chain does not skip: not null, 0 or "".
Kept(v) ==
  /\ Present(v)
  /\ v.t # "null"
  /\ ~(v.t = "number" /\ v.n = 0)
  /\ ~(v.t = "string" /\ v.s = <<>>)

\* The candidate as amended: the first kept field of content, products,
\* items, else the whole payload.
FirstKept(d) ==
  IF Kept(d.content) THEN d.content
  ELSE IF Kept(d.products) THEN d.products
  ELSE IF Kept(d.items) THEN d.items
  ELSE AsValue(d)

\* getProducts resumes with the parsed payload in this step.
PayloadHandled(r) == pc[r] = "parsed" /\ pc'[r] # "parsed"

\* getProducts returns list to request r in this step.
Returned(r, list) == pc'[r] = "gotProducts" /\ products'[r] = list

\* Request r's getProducts() fails in this step: it rejects with an error
\* that carries a message, nothing has been sent yet, and the Generation
\* Engine was not called for the request.
FailedAfter(r) ==
  /\ pc'[r] = "rejected"
  /\ Len(error'[r]) = 1
  /\ res'[r] = NoResponse
  /\ genCalls'[r] = 0

\* The one step a request takes after its getProducts() failed ends it with
\* a server error that carries the failure's message and no generated text;
\* the Generation Engine is not called for it, it is given no items and the
\* snapshot stays as it is.
FailureSent(r) ==
  (pc[r] = "rejected" /\ pc'[r] # "rejected")
  => (/\ pc'[r] = "done"
      /\ res'[r].status = 500
      /\ Len(error[r]) = 1
      /\ res'[r].error = error[r]
      /\ res'[r].response = Undef
      /\ res'[r].productsUsed = Undef
      /\ genCalls'[r] = 0
      /\ products'[r] = <<>>
      /\ productCache' = productCache)

\* C4 as stated: the candidate is the first present field in the order
\* content, items, products, else the whole payload, whatever its value;
\* getProducts returns it when it is an array and fails otherwise.
C4_Original ==
  [][\A r \in Req :
       /\ PayloadHandled(r)
          => IF FirstPresent(data[r]).t = "array"
             THEN Returned(r, FirstPresent(data[r]).arr)
             ELSE FailedAfter(r)
       /\ FailureSent(r)]_vars

\* C4, amended: the candidate is the first field in the order content,
\* products, items whose value is truthy (present and not null, 0 or ""; an
\* empty array is truthy), else the whole payload; it is selected even when
\* it is not an array, and no later field is chosen over an earlier truthy one.
C4_FirstTruthyContentProductsItems ==
  [][\A r \in Req :
       /\ PayloadHandled(r)
          => IF FirstKept(data[r]).t = "array"
             THEN Returned(r, FirstKept(data[r]).arr)
             ELSE FailedAfter(r)
       /\ FailureSent(r)]_vars

\* A request fetched {products: [Freebie], items: [Sneaker, Freebie]} and was given
\* the products list.
C4_Witness ==
  \E r \in Req :
    /\ pc[r] = "gotProducts"
    /\ netCalls[r] = 1
    /\ products[r] = <<Freebie>>

\* The candidate is an object whose own length member is an object that has
\* a toString member of its own: logging its length fails before the array
\* check is reached.
LengthUnprintable(v) ==
  /\ v.t = "object"
  /\ v.arr # <<>>
  /\ v.arr[1].t = "object"
  /\ v.arr[1].n > 0

\* C5: when the selected candidate of a fetched payload is not an array,
\* getProducts() fails, returns no items and leaves the snapshot as it was.
\* The error is the not-an-array error, unless the payload is null or the
\* candidate's length cannot be logged, which fail with a TypeError.  The
\* request is then answered with that error.
C5_NonArrayCandidateFails ==
  [][\A r \in Req :
       /\ (PayloadHandled(r) /\ FirstKept(data[r]).t # "array")
          => (/\ FailedAfter(r)
              /\ (data[r].t # "null" =>
                    error'[r] = IF LengthUnprintable(FirstKept(data[r]))
                                THEN <<MsgConvert>>
                                ELSE <<MsgNotArray>>)
              /\ products'[r] = <<>>
              /\ productCache' = productCache)
       /\ FailureSent(r)]_vars

\* A request found a stale non-empty snapshot, fetched a payload whose
\* candidate is not an array and failed, and the snapshot is still there.
C5_Witness ==
  \E r \in Req :
    /\ logged[r] = [items |-> "some", updated |-> "old"]
    /\ pc[r] = "done"
    /\ res[r].error = <<MsgNotArray>>
    /\ Len(productCache.data) > 0

\* C6: when getProducts() has to fetch and the fetch fails (network error,
\* non-success status, JSON parse error or shape error), the request gets the
\* same kind of failure in all four cases, a server error with the error's
\* message, and is never given the cached items, stale ones included.
C6_FetchFailurePropagates ==
  [][\A r \in Req :
       /\ (\/ pc[r] = "fetching" /\ pc'[r] \notin {"fetching", "readingJson", "readingText"}
           \/ pc[r] = "readingText" /\ pc'[r] # "readingText"
           \/ pc[r] = "readingJson" /\ pc'[r] \notin {"readingJson", "parsed"}
           \/ PayloadHandled(r) /\ FirstKept(data[r]).t # "array")
          => (/\ FailedAfter(r)
              /\ products'[r] = <<>>
              /\ productCache' = productCache)
       /\ FailureSent(r)
       /\ pc[r] = "rejected" => pc'[r] \in {"rejected", "done"}]_vars

\* A request found a stale non-empty snapshot, its fetch failed with a
\* network error, and it was answered with that error.
C6_Witness ==
  \E r \in Req :
    /\ logged[r] = [items |-> "some", updated |-> "old"]
    /\ pc[r] = "done"
    /\ res[r].error \in {<<m>> : m \in NetworkErrors}
    /\ Len(productCache.data) > 0

\* The messages of the errors of the generation call and of reading its text.
GenerationFailures == { <<m>> : m \in GenerationErrors \cup BlockedErrors }

\* C7: the snapshot changes only in the step that completes a successful
\* fetch; a cache hit, a failed fetch, a rejected request and a generation
\* call, failed or not, leave it as it is, so a snapshot written by a request's
\* fetch outlives the failure of that request's generation.
C7_SnapshotChangesOnlyOnFetchSuccess ==
  [][/\ productCache' # productCache
        => \E r \in Req :
             /\ PayloadHandled(r)
             /\ Returned(r, productCache'.data)
             /\ productCache'.lastUpdated = <<now>>
     /\ \A r \in Req :
          (pc[r] \in {"idle", "fetching", "readingText", "readingJson", "rejected",
                      "gotProducts", "generating", "readingResult"}
             /\ pc'[r] # pc[r])
          => productCache' = productCache]_vars

\* A request fetched and stored a list, its generation failed, and the list
\* it stored is still the snapshot.
C7_Witness ==
  \E r \in Req :
    /\ netCalls[r] = 1
    /\ res[r].error \in GenerationFailures
    /\ Len(productCache.data) > 0
    /\ \A q \in Req \ {r} : netCalls[q] = 0

\* C8: in every state, and so at every read by any request, the snapshot's
\* items and fetchedAt are those written together by the last successful
\* fetch (or both initial): never the items of one fetch with the time of
\* another.
C8_SnapshotNeverTorn ==
  /\ productCache.data = lastWrite.data
  /\ productCache.lastUpdated = lastWrite.at

\* Two requests missed on the initial snapshot, both fetched, and their
\* fetches stored different lists, the second at a later time.
C8_Witness ==
  \E r, q \in Req :
    /\ logged[r] = [items |-> "none", updated |-> "never"]
    /\ logged[q] = [items |-> "none", updated |-> "never"]
    /\ pc[r] = "gotProducts" /\ products[r] = <<Sneaker, Freebie>>
    /\ pc[q] = "gotProducts" /\ products[q] = <<Freebie>>
    /\ productCache.data = <<Freebie>>
    /\ productCache.lastUpdated = <<StartTime + ttl \div 2>>

\* A prompt that is missing, not a string, empty or only white space.
Rejectable(p) ==
  \/ p.t # "string"
  \/ \A i \in 1..Len(p.s) : p.s[i] \in WhiteSpace

\* C9: a request whose prompt is missing, not a string, empty or only white
\* space is answered 400, and for it the Catalog Source and the Generation
\* Engine are never called and the cache is neither read nor changed.
C9_InvalidPromptRejected ==
  /\ [](\A r \in Req :
          (pc[r] # "idle" /\ Rejectable(prompt[r]))
          => (/\ pc[r] = "done"
              /\ res[r].status = 400
              /\ Len(res[r].error) = 1
              /\ netCalls[r] = 0
              /\ genCalls[r] = 0
              /\ logged[r] = NotLogged
              /\ products[r] = <<>>))
  /\ [][\A r \in Req :
          (pc[r] = "idle" /\ pc'[r] # "idle" /\ Rejectable(prompt'[r]))
          => productCache' = productCache]_vars

\* A white-space prompt was answered 400 while the cache held products.
C9_Witness ==
  \E r \in Req :
    /\ prompt[r] = Str(<<" ", "\r", "\\u00a0">>)
    /\ res[r].status = 400
    /\ Len(productCache.data) > 0

\* The messages of the errors getProducts() throws.
GetFailures ==
  { <<m>> : m \in NetworkErrors \cup BodyErrors \cup ParseErrors }
    \cup { <<MsgNullPayload>>, <<MsgConvert>>, <<MsgNotArray>> }
    \cup { <<MsgStatus(st)>> : st \in HttpStatuses }

\* C10: a valid request has no response before its handler ends, and then
\* either a success carrying the generated text, after getProducts(), the
\* prompt construction and the generation all succeeded, or a 500 carrying
\* the failure's message and no generated text; the Generation Engine is
\* never called for a request whose getProducts() failed.
C10_NoPartialSuccess ==
  \A r \in Req :
    (pc[r] # "idle" /\ ~Rejectable(prompt[r]))
    => IF pc[r] = "rejected"
       THEN res[r] = NoResponse /\ error[r] \in GetFailures /\ genCalls[r] = 0
       ELSE IF pc[r] # "done" THEN res[r] = NoResponse /\ error[r] = <<>>
       ELSE \/ /\ res[r].status = 200
               /\ res[r].error = <<>>
               /\ res[r].response.t = "string"
               /\ res[r].productsUsed.t = "number"
               /\ genCalls[r] = 1
            \/ /\ res[r].status = 500
               /\ res[r].response = Undef
               /\ res[r].tokenEstimate = Undef
               /\ res[r].productsUsed = Undef
               /\ \/ res[r].error \in GetFailures /\ genCalls[r] = 0
                  \/ res[r].error \in {<<MsgNullElement>>, <<MsgConvert>>} /\ genCalls[r] = 0
                  \/ res[r].error \in GenerationFailures /\ genCalls[r] = 1

\* One request was answered with generated text and another with the error
\* of its failed generation.
C10_Witness ==
  \E r, q \in Req :
    /\ res[r].status = 200
    /\ res[r].response.t = "string"
    /\ res[q].status = 500
    /\ res[q].error \in GenerationFailures

\* ------------------------------------------------ the prompt, read back
\* The places of a piece in a text, and the n-th of them.
Places(text, piece) == {i \in 1..Len(text) : text[i] = piece}
Nth(S, n) == CHOOSE i \in S : Cardinality({j \in S : j <= i}) = n

\* What the text shows between the n-th piece `from` and the n-th piece `to`.
Shown(text, n, from, to) ==
  SubSeq(text, Nth(Places(text, from), n) + 1, Nth(Places(text, to), n) - 1)

TitleShown(text, n) == Shown(text, n, "\n    Product: ", "\n    Description: ")
DescriptionShown(text, n) == Shown(text, n, "\n    Description: ", "\n    Price: ")
PriceShown(text, n) == Shown(text, n, "\n    Price: ", "\n    Category: ")
CategoryShown(text, n) == Shown(text, n, "\n    Category: ", "\n  ")

\* The characters a field value stands for when it is shown as it is: a
\* number in decimal, a list as its members separated by commas.
RECURSIVE AsWritten(_)
AsWritten(v) ==
  IF v.t = "number"
  THEN IF v.n < 0 THEN <<"-">> \o Digits(0 - v.n) ELSE Digits(v.n)
  ELSE IF v.t = "null" THEN <<"null">>
  ELSE IF v.t = "object" THEN <<"[object Object]">>
  ELSE IF v.t = "array"
  THEN IF v.arr = <<>> THEN <<>>
       ELSE IF Len(v.arr) = 1 THEN AsWritten(v.arr[1])
       ELSE AsWritten(v.arr[1]) \o <<",">> \o AsWritten(Arr(Tail(v.arr)))
  ELSE v.s

\* Request r's handler has built its prompt from products[r].
Built(r) == pc[r] = "generating"

\* The elements of a products array that are objects.
AllObjects(list) == \A i \in 1..Len(list) : list[i].t = "object"

\* C11 (as stated): in the built prompt a product without title shows
\* "Unnamed Product" and a product with price 0 shows the price 0: every
\* field that is present shows its own value, and only an absent field shows
\* its placeholder.
C11_FalsyButDefinedPreserved ==
  \A r \in Req :
    (Built(r) /\ AllObjects(products[r]))
      => \A i \in 1..Len(products[r]) :
           LET p == products[r][i] IN
           /\ TitleShown(sent[r], i) =
                IF Present(p.title) THEN AsWritten(p.title)
                ELSE <<"Unnamed Product">>
           /\ DescriptionShown(sent[r], i) =
                IF Present(p.description) THEN AsWritten(p.description)
                ELSE <<"No description">>
           /\ PriceShown(sent[r], i) =
                IF Present(p.price) THEN AsWritten(p.price) ELSE <<"N/A">>
           /\ CategoryShown(sent[r], i) =
                IF Present(p.category) THEN AsWritten(p.category)
                ELSE <<"Uncategorized">>

\* A field of a product shows as the claim allows: the placeholder when the
\* field is absent, its own value when the || default keeps it.
ShowsField(shown, v, placeholder) ==
  /\ ~Present(v) => shown = <<placeholder>>
  /\ Kept(v) => shown = AsWritten(v)

\* The n-th block of the text lies before the next one, its lines in the
\* template's order.
InOrder(text, n) ==
  /\ Nth(Places(text, "\n    Product: "), n) < Nth(Places(text, "\n    Description: "), n)
  /\ Nth(Places(text, "\n    Description: "), n) < Nth(Places(text, "\n    Price: "), n)
  /\ Nth(Places(text, "\n    Price: "), n) < Nth(Places(text, "\n    Category: "), n)
  /\ Nth(Places(text, "\n    Category: "), n) < Nth(Places(text, "\n  "), n)
  /\ n > 1 => Nth(Places(text, "\n  "), n - 1) < Nth(Places(text, "\n    Product: "), n)

\* C12: the catalog text of a built prompt has exactly one block per product
\* of the input, in the order of the input (none dropped, duplicated, merged
\* or moved), neighbours separated by a blank line, and the i-th block shows
\* the i-th product: each absent field as its placeholder ("Unnamed Product",
\* "No description", "N/A", "Uncategorized").
C12_OneBlockPerProductInOrder ==
  \A r \in Req :
    Built(r) =>
      LET n == Len(products[r]) IN
      /\ \A label \in {"\n    Product: ", "\n    Description: ", "\n    Price: ",
                       "\n    Category: ", "\n  "} :
           Cardinality(Places(sent[r], label)) = n
      /\ Cardinality(Places(sent[r], "\n\n")) = IF n = 0 THEN 0 ELSE n - 1
      /\ \A i \in 1..n :
           LET p == products[r][i] IN
           /\ InOrder(sent[r], i)
           /\ ShowsField(TitleShown(sent[r], i), p.title, "Unnamed Product")
           /\ ShowsField(DescriptionShown(sent[r], i), p.description, "No description")
           /\ ShowsField(PriceShown(sent[r], i), p.price, "N/A")
           /\ ShowsField(CategoryShown(sent[r], i), p.category, "Uncategorized")

\* The builder ran on a list that repeats a product and has absent fields.
C12_Witness ==
  /\ Built(FirstReq)
  /\ products[FirstReq] = <<Sneaker, Freebie, Sneaker>>
  /\ TitleShown(sent[FirstReq], 2) = <<"Unnamed Product">>
  /\ PriceShown(sent[FirstReq], 3) = <<"2", "0">>

\* The text holds the fixed instructions of the prompt template.
HasTemplate(text) ==
  \A clause \in {"[Respond in under 40 words]", "Available Products:",
                 "Response Requirements:", "- Concise bullet points",
                 "- Max 200 tokens", "- Prioritize most relevant products"} :
    Places(text, clause) # {}

\* Request r's handler resumes with the array getProducts() returned.
BuildCalled(r) == pc[r] = "gotProducts" /\ pc'[r] # "gotProducts"

\* C13 (as stated): building the prompt never fails: whatever array
\* getProducts() returned (empty, with absent fields, with elements that are
\* null or not objects), the handler goes on to the generation call with a
\* prompt that holds the fixed template, and no error is raised.
C13_BuildNeverFails ==
  [][\A r \in Req :
       BuildCalled(r)
         => /\ pc'[r] = "generating"
            /\ res'[r] = NoResponse
            /\ HasTemplate(sent'[r])]_vars

\* C14: a call of getProducts() is answered from the cache, with no network
\* call, exactly when the cache holds at least one product and the time since
\* its update is strictly less than ttl (10 minutes); otherwise, and so at an
\* age of exactly ttl, it calls the products API once.
C14_ServedIffNonEmptyAndYoungerThanTtl ==
  [][\A r \in Req :
       GetCalled(r)
         => LET young == /\ productCache.lastUpdated # <<>>
                         /\ now - productCache.lastUpdated[1] < 10 * 60 * 1000
                served == /\ pc'[r] = "gotProducts"
                          /\ products'[r] = productCache.data
                          /\ netCalls'[r] = netCalls[r]
                fetched == /\ pc'[r] = "fetching"
                           /\ netCalls'[r] = netCalls[r] + 1
            IN IF Len(productCache.data) > 0 /\ young THEN served ELSE fetched]_vars

\* A request found products stored exactly ttl ago and is fetching.
C14_Witness ==
  \E r \in Req :
    /\ pc[r] = "fetching"
    /\ logged[r] = [items |-> "some", updated |-> "old"]
    /\ productCache.lastUpdated = <<StartTime>>
    /\ now = StartTime + 10 * 60 * 1000

\* C15: one call of getProducts() makes at most one call of the products API:
\* none when it found a valid snapshot, one otherwise, and no further one
\* whatever becomes of the first (a failed fetch is not retried).
C15_AtMostOneFetchNoRetry ==
  \A r \in Req :
    /\ netCalls[r] <= 1
    /\ logged[r] \in {NotLogged, [items |-> "some", updated |-> "recent"]}
         => netCalls[r] = 0
    /\ logged[r] \notin {NotLogged, [items |-> "some", updated |-> "recent"]}
         => netCalls[r] = 1

\* A request's fetch failed and was answered; a later request is fetching.
C15_Witness ==
  \E r, q \in Req :
    /\ r < q
    /\ res[r] \in {ErrorResponse(500, m) : m \in NetworkErrors}
    /\ netCalls[r] = 1
    /\ pc[q] = "fetching"
    /\ netCalls[q] = 1

\* Request q's fetch is under way: called and not yet stored or failed.
InFlight(q) == pc[q] \in {"fetching", "readingText", "readingJson", "parsed"}

\* The snapshot is invalid: empty, never fetched, or ttl or more old.
Invalid(cache, t) ==
  \/ cache.data = <<>>
  \/ cache.lastUpdated = <<>>
  \/ t - ToNumber(cache.lastUpdated) >= 10 * 60 * 1000

\* C16: fetches are not shared.  A request that calls getProducts() on an
\* invalid snapshot while other requests' fetches are under way makes a
\* network call of its own, and what getProducts() returns to a request is
\* the array of the payload its own fetch received.
C16_NoSingleFlight ==
  [][\A r \in Req :
       /\ (GetCalled(r) /\ Invalid(productCache, now)
             /\ \E q \in Req \ {r} : InFlight(q))
            => /\ pc'[r] = "fetching"
               /\ netCalls'[r] = netCalls[r] + 1
               /\ \A q \in Req \ {r} : netCalls'[q] = netCalls[q]
       /\ (InFlight(r) /\ pc'[r] = "gotProducts")
            => products'[r] = FirstKept(data[r]).arr]_vars

\* Two requests both found the cache never filled, each made one network
\* call, and each was returned the array of its own payload.
C16_Witness ==
  \E r, q \in Req :
    /\ r # q
    /\ logged[r] = [items |-> "none", updated |-> "never"]
    /\ logged[q] = [items |-> "none", updated |-> "never"]
    /\ netCalls[r] = 1 /\ netCalls[q] = 1
    /\ pc[r] = "gotProducts" /\ products[r] = <<Freebie>>
    /\ pc[q] = "gotProducts" /\ products[q] = <<Sneaker, Freebie>>

\* C17: in every reachable state the cache's ttl is 10 minutes (600000 ms),
\* and the cache holds products only if its update time is set.
C17_TtlFixedItemsImplyStamp ==
  /\ productCache.ttl = 600000
  /\ Len(productCache.data) > 0 => productCache.lastUpdated # <<>>

\* The cache holds products stored by a fetch made after an earlier snapshot
\* had expired.
C17_Witness ==
  /\ productCache.ttl = 600000
  /\ productCache.data = <<Freebie>>
  /\ productCache.lastUpdated = <<StartTime + 600000>>
  /\ \E r \in Req : logged[r] = [items |-> "some", updated |-> "old"]

\* Request r's getProducts() completes its fetch successfully in this step.
FetchCompleted(r) == pc[r] = "parsed" /\ pc'[r] = "gotProducts"

\* C18: with overlapping fetches the snapshot is that of the fetch whose
\* response is processed last.  Whenever a request's fetch completes, in
\* whatever order the fetches were issued and whatever the cache holds by
\* then, the cache becomes that request's array, stamped with the time of
\* this step (the time of storing, not of sending).
C18_LastProcessedFetchWins ==
  [][\A r \in Req :
       FetchCompleted(r)
         => /\ productCache'.data = FirstKept(data[r]).arr
            /\ productCache'.lastUpdated = <<now>>
            /\ lastWrite' = [data |-> productCache'.data, at |-> <<now>>]]_vars

\* Request 1 called fetch before request 2 did, both before any response was
\* stored; request 2's response was stored first and request 1's, processed
\* later, replaced it.
C18_Witness ==
  \E r, q \in Req :
    /\ r < q
    /\ logged[r] = [items |-> "none", updated |-> "never"]
    /\ logged[q] = [items |-> "none", updated |-> "never"]
    /\ pc[q] \in {"gotProducts", "generating"} /\ products[q] = <<Freebie>>
    /\ pc[r] = "gotProducts" /\ products[r] = <<Sneaker, Freebie>>
    /\ productCache.data = <<Sneaker, Freebie>>
    /\ productCache.lastUpdated = <<StartTime + 600000>>

\* Request r holds the array getProducts() returned to it.
Holding(r) == pc[r] \in {"gotProducts", "generating", "readingResult"}

\* C19: a success response reports as productsUsed the number of products
\* getProducts() returned to that same request, which is the number of blocks
\* in the prompt it sent: the request's array stays its own from the return
\* of getProducts() to the response, whatever other requests store in the
\* cache meanwhile.
C19_ProductsUsedIsOwnCount ==
  [][\A r \in Req :
       /\ (Holding(r) /\ pc'[r] = "done" /\ res'[r].status = 200)
            => /\ res'[r].productsUsed = Num(Len(products[r]))
               /\ Cardinality(Places(sent[r], "\n    Product: ")) = Len(products[r])
       /\ (Holding(r) /\ Holding(r)') => products'[r] = products[r]]_vars

\* A request that fetched one product was answered with productsUsed 1; the
\* cache holds the two products another request's fetch stored after this
\* request's own.
C19_Witness ==
  \E r \in Req :
    /\ res[r].status = 200
    /\ res[r].productsUsed = Num(1)
    /\ netCalls[r] = 1
    /\ productCache.data = <<Sneaker, Freebie>>

\* Request r has been sent a response.
Answered(r) == res[r].status # 0

\* C20: when every outbound call eventually returns or fails, every request
\* that has arrived is eventually sent a response, after an error as well,
\* and a response once sent is never followed by another.
C20_EveryRequestAnsweredOnce ==
  /\ \A r \in Req : (pc[r] # "idle") ~> Answered(r)
  /\ [][\A r \in Req : Answered(r) => res'[r] = res[r]]_vars

\* Every request has been answered, one after an error and one with a chat
\* response.
C20_Witness ==
  /\ \A r \in Req : pc[r] = "done" /\ Answered(r)
  /\ \E r, q \in Req : res[r].status = 500 /\ res[q].status = 200

====
